---- MODULE Spec2Model ----
(***************************************************************************)
(* PolarManager: the per-server lifecycle state machine (ManagedServer),   *)
(* the process handle it drives (ProcessAdapter), the supervising tick     *)
(* loop and the action dispatch (PolarManager), as run by main_async.      *)
(*                                                                         *)
(* Execution model: one asyncio event loop.  A step of the model is the    *)
(* code a task runs between two real suspensions.  Putting an event on the *)
(* unbounded queue and taking a free lock do not suspend; waiting for a    *)
(* held lock, spawning a process, waiting for a process to exit, probing   *)
(* and sleeping do.                                                        *)
(***************************************************************************)
EXTENDS Integers, Sequences, FiniteSets, TLC

\* ---------------------------------------------------------------- bounds
\* Clock: seconds 0, TimeStep, 2*TimeStep, ... up to MaxTime.
TimeStep == 30
MaxTime == 90
\* Length of the most recent part of a server's event stream that is kept.
MaxEvents == 3
\* Largest max_restart_per_minute configured.
MaxRestarts == 2
\* The tallies stop counting here.
TallyCap == 4
\* Longest list of configured servers.
MaxConfigs == 3
\* Longest output line, longest keyword list, lines read from one process.
MaxLineLen == 2
MaxKeywords == 2
MaxLines == 2

\* ------------------------------------------------------ program constants
\* _allow_restart: minute_ago = now - 60.0
Window == 60
\* ProcessAdapter.exit_code returns None when there is no exit code.
NoneCode == 999
\* returncode of a process ended by terminate() / kill() that did not
\* handle the signal (negative signal number).
SigTerm == -15
SigKill == -9
\* AppConfig.max_servers, when the configuration does not set it.
DefaultMaxServers == 25

\* --------------------------------------------------------- configuration
\* A server id no ManagedServer exists for.
UnknownId == "zz"
Clients == {"c1", "c2"}
LoopTask == "loop"
BootTask == "boot"
Tasks == Clients \cup {LoopTask, BootTask}
NoTask == "none"

VARIABLES
    app,            \* PolarManager.cfg: max_servers and the configured servers
    order,          \* PolarManager.servers: the managed ids, in dict order
    now,            \* time.time()
    cfg,            \* ManagedServer.cfg, per server
    status,         \* ManagedServer.status
    health,         \* ManagedServer.health
    restart_times,  \* ManagedServer._restart_times
    proc,           \* ManagedServer.proc (the ProcessAdapter and its process)
    lock,           \* ManagedServer._lock: the task holding it
    waiters,        \* ManagedServer._lock: tasks waiting for it, FIFO
    event_q,        \* per server id, the most recent events put on event_q
    last_ev,        \* per server id, the last status/crash event put
    pc,             \* where each task is
    stop_flag,      \* PolarManager._stop
    tally           \* per server: non-zero exits, auto-restarts, warns so far

vars == <<app, order, now, cfg, status, health, restart_times, proc, lock, waiters,
          event_q, last_ev, pc, stop_flag, tally>>

\* The ids of PolarManager.servers.
Servers == {order[i] : i \in 1..Len(order)}

\* ----------------------------------------------------------------- events
Ev(type, val, code, reason) ==
    [type |-> type, val |-> val, code |-> code, reason |-> reason,
     line |-> <<>>, keyword |-> <<>>]
StatusEv(st, reason) == Ev("status", st, 0, reason)
CrashEv(code) == Ev("crash", "-", code, "-")
WarnEv == Ev("warn", "restart rate limited", 0, "-")
InfoEv == Ev("info", "stop_cmd not implemented yet", 0, "-")
HealthEv(h) == Ev("health", h, 0, "-")
NoEv == Ev("none", "-", 0, "-")
\* A line is the sequence of its characters, and so is a keyword.
LogEv(line) == [Ev("log_line", "-", 0, "-") EXCEPT !.line = line]
ImportantEv(line, kw) ==
    [Ev("important_log", "-", 0, "-") EXCEPT !.line = line, !.keyword = kw]

RECURSIVE KeepLast(_, _)
KeepLast(q, n) == IF Len(q) <= n THEN q ELSE KeepLast(Tail(q), n)

RECURSIVE LastLifecycle(_, _)
LastLifecycle(prev, evs) ==
    IF evs = <<>> THEN prev
    ELSE IF Head(evs).type \in {"status", "crash"}
         THEN LastLifecycle(Head(evs), Tail(evs))
         ELSE LastLifecycle(prev, Tail(evs))

\* ManagedServer._emit, for the events evs one step puts for server s.
Emit(s, evs) ==
    /\ event_q' = [event_q EXCEPT ![s] = KeepLast(@ \o evs, MaxEvents)]
    /\ last_ev' = [last_ev EXCEPT ![s] = LastLifecycle(@, evs)]

\* ------------------------------------------------------- ProcessAdapter
\* out: the lines of the process's output passed to the callback so far.
NoProc == [state |-> "none", code |-> NoneCode, sig |-> "none", out |-> 0]
LiveProc == [state |-> "alive", code |-> NoneCode, sig |-> "none", out |-> 0]

is_running(p) == p.state = "alive"

exit_code(p) == IF p.state = "none" THEN NoneCode ELSE p.code

\* ProcessAdapter.start: "process already running"
AlreadyRunning(p) == p.state = "alive"

\* The exit codes a process can end with, given the signals it was sent so
\* far.  A signal does not decide the code: the process may handle SIGTERM
\* and exit with a code of its own, and it may have ended by itself, or by
\* the earlier SIGTERM, when the signal arrives.
ExitCodes(p) ==
    IF p.sig = "kill" THEN {0, 1, SigTerm, SigKill}
    ELSE IF p.sig = "term" THEN {0, 1, SigTerm}
    ELSE {0, 1}

\* ------------------------------------------------------- restart limiter
\* Mutant: the window is never pruned.
PruneNothing(times, t) == times

Prune(times, t) == SelectSeq(times, LAMBDA x : x >= t - Window)

\* ManagedServer._allow_restart: the pruned window and the verdict.
AllowRestart(times, t, max) ==
    [times |-> Prune(times, t), ok |-> Len(Prune(times, t)) < max]

\* ---------------------------------------------------------------- tallies
\* One more of kind k ("exits", "autos", "warns") for server s when yes,
\* up to the cap the specification counts to.
Count(s, k, yes) ==
    tally' = [tally EXCEPT ![s][k] =
                 IF yes /\ @ < tally[s].cap THEN @ + 1 ELSE @]

\* ------------------------------------------------------------------ tasks
At(l, s, reason, via) ==
    [at |-> l, srv |-> s, reason |-> reason, via |-> via]
Idle == At("idle", "-", "-", "-")

IndexOf(s) == CHOOSE i \in 1..Len(order) : order[i] = s
IsLast(s) == IndexOf(s) = Len(order)
NextSrv(s) == order[IndexOf(s) + 1]

\* loop(): after the ticks of server s, the next server's or the sleep.
AfterTicks(s) ==
    IF IsLast(s) THEN At("sleep", "-", "-", "-")
    ELSE At("tick", NextSrv(s), "-", "-")

\* start_all(): after the start of server s.
AfterBoot(s) ==
    IF IsLast(s) THEN At("boot_done", "-", "-", "-")
    ELSE At("boot", NextSrv(s), "-", "-")

\* Mutant: loop() without its try/except, the exception ends the loop task.
ReturnFromStartUncaught(via, s, ok) ==
    CASE via = "tick" -> IF ok THEN At("health", s, "-", "-")
                         ELSE At("loop_exit", "-", "-", "-")
      [] via = "boot" -> IF ok THEN AfterBoot(s)
                         ELSE At("boot_failed", s, "-", "-")
      [] OTHER -> At(IF ok THEN "returned" ELSE "raised", "-", "-", "-")

\* Where the caller of start() goes on when start() returns (ok) or
\* raises: do_action and restart return to the API handler, tick_supervisor
\* returns into loop() (which catches the exception and skips tick_health),
\* start_all goes to the next server or propagates the exception.
ReturnFromStart(via, s, ok) ==
    CASE via = "tick" -> IF ok THEN At("health", s, "-", "-") ELSE AfterTicks(s)
      [] via = "boot" -> IF ok THEN AfterBoot(s)
                         ELSE At("boot_failed", s, "-", "-")
      [] OTHER -> At(IF ok THEN "returned" ELSE "raised", "-", "-", "-")

\* Where the caller of stop() goes on: restart() sleeps, then starts.
ReturnFromStop(via, s, reason) ==
    IF via = "restart" THEN At("restart_sleep", s, reason, via)
    ELSE At("returned", "-", "-", "-")

\* Task t goes on at p.  When start_all() raises (boot_failed) main_async
\* ends with it; the other tasks stay where they are.
Goto(t, p) == [pc EXCEPT ![t] = p]

\* Mutant: start() and stop() without the lock.
LockFreeAlways(s) == TRUE

\* asyncio.Lock.acquire returns at once only when the lock is not held and
\* nobody waits for it.
LockFree(s) == lock[s] = NoTask /\ waiters[s] = <<>>

\* ---------------------------------------------------------------- Init
CfgOf(policy, max, stop_cmd, probe) ==
    [restart_policy |-> policy, max_restart_per_minute |-> max,
     stop_cmd |-> stop_cmd, health_port |-> probe,
     log_important_keywords |-> <<>>]

\* list[:k]: the first k entries, and for a negative k all but the last -k.
Slice(list, k) ==
    IF k >= 0 THEN SubSeq(list, 1, IF k < Len(list) THEN k ELSE Len(list))
    ELSE SubSeq(list, 1, IF Len(list) + k > 0 THEN Len(list) + k ELSE 0)

\* The keys of the dict filled from the entries of list in order: each id
\* once, where it first occurs.
RECURSIVE DictKeys(_)
DictKeys(list) ==
    IF list = <<>> THEN <<>>
    ELSE LET init == DictKeys(SubSeq(list, 1, Len(list) - 1))
             id == list[Len(list)].id
         IN IF \E i \in 1..Len(init) : init[i] = id THEN init ELSE Append(init, id)

\* The value the dict holds for id s: that of the last entry with this id.
LastCfg(list, s) ==
    list[CHOOSE i \in 1..Len(list) :
             /\ list[i].id = s
             /\ \A j \in (i + 1)..Len(list) : list[j].id # s].cfg

\* Where a walk over the managed servers starts, or where it goes when
\* there is none.
FirstOr(label, empty) ==
    IF order = <<>> THEN At(empty, "-", "-", "-") ELSE At(label, order[1], "-", "-")

\* The state PolarManager.__init__ and ManagedServer.__init__ build from the
\* configured servers (id and configuration each), max_servers and the
\* shared secret of the plugin endpoint ("" when none is configured); the
\* tallies count up to cap.
InitManager(servers, max_servers, shared_secret, cap) ==
    /\ app = [max_servers |-> max_servers, servers |-> servers,
              shared_secret |-> shared_secret]
    /\ order = DictKeys(Slice(servers, max_servers))
    /\ now = 0
    /\ cfg = [s \in Servers |-> LastCfg(Slice(servers, max_servers), s)]
    /\ status = [s \in Servers |-> "stopped"]
    /\ health = [s \in Servers |-> "ok"]
    /\ restart_times = [s \in Servers |-> <<>>]
    /\ proc = [s \in Servers |-> NoProc]
    /\ lock = [s \in Servers |-> NoTask]
    /\ waiters = [s \in Servers |-> <<>>]
    /\ event_q = [s \in Servers |-> <<>>]
    /\ last_ev = [s \in Servers |-> NoEv]
    /\ pc = [t \in Tasks |->
               IF t = LoopTask THEN At("loop_top", "-", "-", "-")
               ELSE IF t = BootTask THEN FirstOr("boot", "boot_done")
               ELSE Idle]
    /\ stop_flag = FALSE
    /\ tally = [s \in Servers |-> [exits |-> 0, autos |-> 0, warns |-> 0, cap |-> cap]]

\* The same with no shared secret configured.
InitApp(servers, max_servers, cap) == InitManager(servers, max_servers, "", cap)

\* The same for the ids ord, each configured once with one of cfgs, and the
\* default max_servers.
InitWith(ord, cfgs, cap) ==
    \E f \in [{ord[i] : i \in 1..Len(ord)} -> cfgs] :
        InitApp([i \in 1..Len(ord) |-> [id |-> ord[i], cfg |-> f[ord[i]]]],
                DefaultMaxServers, cap)

\* One server, the API, start_all and the tick loop; the clock stands.
Init ==
    InitWith(<<"a">>, {CfgOf("always", 1, FALSE, FALSE),
                       CfgOf("never", 1, TRUE, FALSE)}, 0)

\* ------------------------------------------------- ManagedServer.start
\* Mutant: start() without the is_running() test.
StartLockedNoCheck(t, s, reason, via, st, pre) ==
    /\ status' = [status EXCEPT ![s] = "starting"]
    /\ Emit(s, pre \o <<StatusEv("starting", reason)>>)
    /\ IF AlreadyRunning(proc[s])
       THEN /\ lock' = [lock EXCEPT ![s] = NoTask]
            /\ pc' = Goto(t, ReturnFromStart(via, s, FALSE))
       ELSE /\ lock' = [lock EXCEPT ![s] = t]
            /\ pc' = [pc EXCEPT ![t] = At("start_spawn", s, reason, via)]

\* Mutant: start() gives the lock back before the spawn instead of holding
\* it across it.
StartLockedSpawnUnlocked(t, s, reason, via, st, pre) ==
    IF is_running(proc[s])
    THEN /\ status' = [status EXCEPT ![s] = st]
         /\ Emit(s, pre)
         /\ lock' = [lock EXCEPT ![s] = NoTask]
         /\ pc' = Goto(t, ReturnFromStart(via, s, TRUE))
    ELSE /\ status' = [status EXCEPT ![s] = "starting"]
         /\ Emit(s, pre \o <<StatusEv("starting", reason)>>)
         /\ lock' = [lock EXCEPT ![s] = NoTask]
         /\ pc' = [pc EXCEPT ![t] = At("start_spawn", s, reason, via)]

\* The body of start() once task t holds the lock of s.  st and pre are the
\* status and the events the caller set and put earlier in the same step.
StartLocked(t, s, reason, via, st, pre) ==
    IF is_running(proc[s])
    THEN /\ status' = [status EXCEPT ![s] = st]
         /\ Emit(s, pre)
         /\ lock' = [lock EXCEPT ![s] = NoTask]
         /\ pc' = Goto(t, ReturnFromStart(via, s, TRUE))
    ELSE /\ status' = [status EXCEPT ![s] = "starting"]
         /\ Emit(s, pre \o <<StatusEv("starting", reason)>>)
         /\ IF AlreadyRunning(proc[s])
            THEN /\ lock' = [lock EXCEPT ![s] = NoTask]
                 /\ pc' = Goto(t, ReturnFromStart(via, s, FALSE))
            ELSE /\ lock' = [lock EXCEPT ![s] = t]
                 /\ pc' = [pc EXCEPT ![t] = At("start_spawn", s, reason, via)]

\* A call of start(): into the body when the lock is free, else wait.
StartCall(t, s, reason, via, st, pre) ==
    IF LockFree(s)
    THEN /\ StartLocked(t, s, reason, via, st, pre)
         /\ UNCHANGED waiters
    ELSE /\ status' = [status EXCEPT ![s] = st]
         /\ Emit(s, pre)
         /\ waiters' = [waiters EXCEPT ![s] = Append(@, t)]
         /\ pc' = [pc EXCEPT ![t] = At("start_lock", s, reason, via)]
         /\ UNCHANGED lock

\* create_subprocess_exec returned: the new process replaces the handle's,
\* status -> running, the lock is released.
SpawnOk(t) ==
    /\ pc[t].at = "start_spawn"
    /\ LET s == pc[t].srv IN
        /\ proc' = [proc EXCEPT ![s] = LiveProc]
        /\ status' = [status EXCEPT ![s] = "running"]
        /\ Emit(s, <<StatusEv("running", pc[t].reason)>>)
        /\ lock' = [lock EXCEPT ![s] = NoTask]
        /\ pc' = Goto(t, ReturnFromStart(pc[t].via, s, TRUE))
    /\ UNCHANGED <<tally, order, app, now, cfg, health, restart_times, waiters, stop_flag>>

\* create_subprocess_exec raised: the exception leaves start() through the
\* lock's context manager; status stays as it is.
SpawnFail(t) ==
    /\ pc[t].at = "start_spawn"
    /\ LET s == pc[t].srv IN
        /\ lock' = [lock EXCEPT ![s] = NoTask]
        /\ pc' = Goto(t, ReturnFromStart(pc[t].via, s, FALSE))
    /\ UNCHANGED <<tally, order, app, now, cfg, status, health, restart_times, proc, waiters,
                   event_q, last_ev, stop_flag>>

\* -------------------------------------------------- ManagedServer.stop
\* Mutant: stop() of a server that is not running returns at once, leaving
\* the status as it is.
StopLockedSkip(t, s, reason, via) ==
    IF ~is_running(proc[s])
    THEN /\ lock' = [lock EXCEPT ![s] = NoTask]
         /\ pc' = [pc EXCEPT ![t] = ReturnFromStop(via, s, reason)]
         /\ UNCHANGED <<proc, status, event_q, last_ev>>
    ELSE /\ status' = [status EXCEPT ![s] = "stopping"]
         /\ Emit(s, <<StatusEv("stopping", reason)>>
                     \o (IF cfg[s].stop_cmd THEN <<InfoEv>> ELSE <<>>))
         /\ proc' = [proc EXCEPT ![s].sig = "term"]
         /\ lock' = [lock EXCEPT ![s] = t]
         /\ pc' = [pc EXCEPT ![t] = At("stop_wait", s, reason, via)]

\* The body of stop() once task t holds the lock of s.
StopLocked(t, s, reason, via) ==
    IF ~is_running(proc[s])
    THEN /\ status' = [status EXCEPT ![s] = "stopped"]
         /\ Emit(s, <<StatusEv("stopped", reason)>>)
         /\ lock' = [lock EXCEPT ![s] = NoTask]
         /\ pc' = [pc EXCEPT ![t] = ReturnFromStop(via, s, reason)]
         /\ UNCHANGED proc
    ELSE /\ status' = [status EXCEPT ![s] = "stopping"]
         /\ Emit(s, <<StatusEv("stopping", reason)>>
                     \o (IF cfg[s].stop_cmd THEN <<InfoEv>> ELSE <<>>))
         /\ proc' = [proc EXCEPT ![s].sig = "term"]
         /\ lock' = [lock EXCEPT ![s] = t]
         /\ pc' = [pc EXCEPT ![t] = At("stop_wait", s, reason, via)]

StopCall(t, s, reason, via) ==
    IF LockFree(s)
    THEN /\ StopLocked(t, s, reason, via)
         /\ UNCHANGED waiters
    ELSE /\ waiters' = [waiters EXCEPT ![s] = Append(@, t)]
         /\ pc' = [pc EXCEPT ![t] = At("stop_lock", s, reason, via)]
         /\ UNCHANGED <<status, event_q, last_ev, proc, lock>>

\* ProcessAdapter.stop: wait_for(..., timeout=10) timed out, kill() is sent.
\* The clock of the model does not time the grace period: any wait for a
\* process that has not exited may time out.
StopKill(t) ==
    /\ pc[t].at = "stop_wait"
    /\ LET s == pc[t].srv IN
        /\ is_running(proc[s])
        /\ proc[s].sig = "term"
        /\ proc' = [proc EXCEPT ![s].sig = "kill"]
    /\ UNCHANGED <<tally, order, app, now, cfg, status, health, restart_times, lock, waiters,
                   event_q, last_ev, pc, stop_flag>>

\* Mutant: stop() sets stopped without the status event.
StopDoneNoEmit(t) ==
    /\ pc[t].at = "stop_wait"
    /\ LET s == pc[t].srv IN
        /\ ~is_running(proc[s])
        /\ status' = [status EXCEPT ![s] = "stopped"]
        /\ lock' = [lock EXCEPT ![s] = NoTask]
        /\ pc' = [pc EXCEPT ![t] = ReturnFromStop(pc[t].via, s, pc[t].reason)]
    /\ UNCHANGED <<tally, order, app, now, cfg, health, restart_times, proc, waiters,
                   stop_flag, event_q, last_ev>>

\* proc.wait() returned: status -> stopped, the lock is released.
StopDone(t) ==
    /\ pc[t].at = "stop_wait"
    /\ LET s == pc[t].srv IN
        /\ ~is_running(proc[s])
        /\ status' = [status EXCEPT ![s] = "stopped"]
        /\ Emit(s, <<StatusEv("stopped", pc[t].reason)>>)
        /\ lock' = [lock EXCEPT ![s] = NoTask]
        /\ pc' = [pc EXCEPT ![t] = ReturnFromStop(pc[t].via, s, pc[t].reason)]
    /\ UNCHANGED <<tally, order, app, now, cfg, health, restart_times, proc, waiters, stop_flag>>

\* ProcessAdapter.stop: wait_for(..., timeout=10) timed out while the
\* process was ending, and kill() finds it gone: ProcessLookupError leaves
\* stop() through the lock's context manager, and restart() and do_action
\* with it.  The status stays stopping and no event is put.
StopKillFails(t) ==
    /\ pc[t].at = "stop_wait"
    /\ LET s == pc[t].srv IN
        /\ ~is_running(proc[s])
        /\ proc[s].sig = "term"
        /\ lock' = [lock EXCEPT ![s] = NoTask]
        /\ pc' = [pc EXCEPT ![t] = At("raised", "-", "-", "-")]
    /\ UNCHANGED <<tally, order, app, now, cfg, status, health, restart_times, proc, waiters,
                   event_q, last_ev, stop_flag>>

\* The first waiter of a released lock takes it and runs the body.
LockResume(t) ==
    /\ pc[t].at \in {"start_lock", "stop_lock"}
    /\ LET s == pc[t].srv IN
        /\ lock[s] = NoTask
        /\ waiters[s] # <<>>
        /\ Head(waiters[s]) = t
        /\ waiters' = [waiters EXCEPT ![s] = Tail(@)]
        /\ IF pc[t].at = "start_lock"
           THEN /\ StartLocked(t, s, pc[t].reason, pc[t].via, status[s], <<>>)
                /\ UNCHANGED proc
           ELSE StopLocked(t, s, pc[t].reason, pc[t].via)
    /\ UNCHANGED <<tally, order, app, now, cfg, health, restart_times, stop_flag>>

\* ------------------------------------------------ ManagedServer.restart
\* asyncio.sleep(0.2) is over: the second phase, start().
RestartStart(t) ==
    /\ pc[t].at = "restart_sleep"
    /\ StartCall(t, pc[t].srv, pc[t].reason, "restart", status[pc[t].srv], <<>>)
    /\ UNCHANGED <<tally, order, app, now, cfg, health, restart_times, proc, stop_flag>>

\* ---------------------------------------- ManagedServer.tick_supervisor
Ticking(s) == pc[LoopTask].at = "tick" /\ pc[LoopTask].srv = s

\* The process is running, or was never started: nothing to do.
TickIdle(s) ==
    /\ Ticking(s)
    /\ is_running(proc[s]) \/ exit_code(proc[s]) = NoneCode
    /\ pc' = [pc EXCEPT ![LoopTask] = At("health", s, "-", "-")]
    /\ UNCHANGED <<tally, order, app, now, cfg, status, health, restart_times, proc, lock,
                   waiters, event_q, last_ev, stop_flag>>

\* Mutant: exit code 0 returns without touching the status.
TickExitZeroKeepsStatus(s) ==
    /\ pc[LoopTask].at = "tick" /\ pc[LoopTask].srv = s
    /\ ~is_running(proc[s])
    /\ exit_code(proc[s]) = 0
    /\ pc' = [pc EXCEPT ![LoopTask] = At("health", s, "-", "-")]
    /\ UNCHANGED <<tally, order, app, now, cfg, status, health, restart_times, proc,
                   lock, waiters, event_q, last_ev, stop_flag>>

\* Exit code 0: status -> stopped, no event.
TickExitZero(s) ==
    /\ Ticking(s)
    /\ ~is_running(proc[s])
    /\ exit_code(proc[s]) = 0
    /\ status' = [status EXCEPT ![s] = "stopped"]
    /\ pc' = [pc EXCEPT ![LoopTask] = At("health", s, "-", "-")]
    /\ UNCHANGED <<tally, order, app, now, cfg, health, restart_times, proc, lock, waiters,
                   event_q, last_ev, stop_flag>>

Crashed(s) ==
    /\ ~is_running(proc[s])
    /\ exit_code(proc[s]) # NoneCode
    /\ exit_code(proc[s]) # 0

\* Mutant: tick_supervisor without the test of restart_policy "never".
TickCrashNeverRestarts(s) ==
    /\ pc[LoopTask].at = "tick" /\ pc[LoopTask].srv = s
    /\ ~is_running(proc[s])
    /\ exit_code(proc[s]) # NoneCode
    /\ exit_code(proc[s]) # 0
    /\ cfg[s].restart_policy = "never"
    /\ restart_times' = [restart_times EXCEPT ![s] = Append(@, now)]
    /\ StartCall(LoopTask, s, "auto_restart", "tick", "crashed",
                 <<CrashEv(exit_code(proc[s]))>>)
    /\ UNCHANGED <<tally, order, app, now, cfg, health, proc, stop_flag>>

\* Non-zero exit code and restart_policy "never": crashed, one crash event.
TickCrashNever(s) ==
    /\ Ticking(s)
    /\ Crashed(s)
    /\ cfg[s].restart_policy = "never"
    /\ status' = [status EXCEPT ![s] = "crashed"]
    /\ Emit(s, <<CrashEv(exit_code(proc[s]))>>)
    /\ pc' = [pc EXCEPT ![LoopTask] = At("health", s, "-", "-")]
    /\ UNCHANGED <<tally, order, app, now, cfg, health, restart_times, proc, lock, waiters,
                   stop_flag>>

\* Non-zero exit code, the limiter refuses: crash and warn, no restart.
TickCrashLimited(s) ==
    /\ Ticking(s)
    /\ Crashed(s)
    /\ cfg[s].restart_policy # "never"
    /\ LET a == AllowRestart(restart_times[s], now, cfg[s].max_restart_per_minute) IN
        /\ ~a.ok
        /\ restart_times' = [restart_times EXCEPT ![s] = a.times]
    /\ status' = [status EXCEPT ![s] = "crashed"]
    /\ Emit(s, <<CrashEv(exit_code(proc[s])), WarnEv>>)
    /\ pc' = [pc EXCEPT ![LoopTask] = At("health", s, "-", "-")]
    /\ Count(s, "warns", TRUE)
    /\ UNCHANGED <<order, app, now, cfg, health, proc, lock, waiters, stop_flag>>

\* Mutant: the auto-restart puts no crash event.
TickCrashRestartNoCrashEv(s) ==
    /\ pc[LoopTask].at = "tick" /\ pc[LoopTask].srv = s
    /\ ~is_running(proc[s])
    /\ exit_code(proc[s]) # NoneCode
    /\ exit_code(proc[s]) # 0
    /\ cfg[s].restart_policy # "never"
    /\ LET a == AllowRestart(restart_times[s], now, cfg[s].max_restart_per_minute) IN
        /\ a.ok
        /\ restart_times' = [restart_times EXCEPT ![s] = Append(a.times, now)]
    /\ StartCall(LoopTask, s, "auto_restart", "tick", "crashed", <<>>)
    /\ Count(s, "autos", TRUE)
    /\ UNCHANGED <<order, app, now, cfg, health, proc, stop_flag>>

\* Non-zero exit code, the limiter allows: crashed, a crash event, the
\* timestamp recorded, then start(reason="auto_restart").
TickCrashRestart(s) ==
    /\ Ticking(s)
    /\ Crashed(s)
    /\ cfg[s].restart_policy # "never"
    /\ LET a == AllowRestart(restart_times[s], now, cfg[s].max_restart_per_minute) IN
        /\ a.ok
        /\ restart_times' = [restart_times EXCEPT ![s] = Append(a.times, now)]
    /\ StartCall(LoopTask, s, "auto_restart", "tick", "crashed",
                 <<CrashEv(exit_code(proc[s]))>>)
    /\ Count(s, "autos", TRUE)
    /\ UNCHANGED <<order, app, now, cfg, health, proc, stop_flag>>

\* -------------------------------------------- ManagedServer.tick_health
\* Mutant: tick_health puts a health event at every evaluation.
TickHealthAlwaysEmits(s, ok) ==
    /\ pc[LoopTask].at = "health"
    /\ pc[LoopTask].srv = s
    /\ cfg[s].health_port \/ ok
    /\ LET new_state == IF ok THEN "ok" ELSE "fail" IN
        /\ health' = [health EXCEPT ![s] = new_state]
        /\ Emit(s, <<HealthEv(new_state)>>)
    /\ pc' = [pc EXCEPT ![LoopTask] = AfterTicks(s)]
    /\ UNCHANGED <<tally, order, app, now, cfg, status, restart_times, proc, lock, waiters,
                   stop_flag>>

\* The probes return ok (TRUE when none is configured); a health event
\* only when the state changes.
TickHealth(s, ok) ==
    /\ pc[LoopTask].at = "health"
    /\ pc[LoopTask].srv = s
    /\ cfg[s].health_port \/ ok
    /\ LET new_state == IF ok THEN "ok" ELSE "fail" IN
        IF new_state # health[s]
        THEN /\ health' = [health EXCEPT ![s] = new_state]
             /\ Emit(s, <<HealthEv(new_state)>>)
        ELSE UNCHANGED <<health, event_q, last_ev>>
    /\ pc' = [pc EXCEPT ![LoopTask] = AfterTicks(s)]
    /\ UNCHANGED <<tally, order, app, now, cfg, status, restart_times, proc, lock, waiters,
                   stop_flag>>

\* ----------------------------------------------------------- output lines
\* The characters lines and keywords are made of, the keywords a
\* configuration may list (the empty keyword is in every line), and the
\* lines and keyword lists up to the bounds.
Alphabet == {"a", "b"}
KeywordChoices == {<<>>, <<"a">>, <<"b">>, <<"a", "b">>}
Lines == UNION {[1..n -> Alphabet] : n \in 0..MaxLineLen}
KeywordLists == UNION {[1..n -> KeywordChoices] : n \in 0..MaxKeywords}

\* kw in line
IsSubstring(kw, line) ==
    \E i \in 0..(Len(line) - Len(kw)) : SubSeq(line, i + 1, i + Len(kw)) = kw

\* The for loop of _on_log_line: the keyword it stops at, if any.
RECURSIVE FirstMatch(_, _)
FirstMatch(kws, line) ==
    IF kws = <<>> THEN <<>>
    ELSE IF IsSubstring(Head(kws), line) THEN <<Head(kws)>>
         ELSE FirstMatch(Tail(kws), line)

\* Mutant: the loop without its break, one important_log per keyword found.
OnLogLineNoBreak(kws, line) ==
    <<LogEv(line)>> \o
        [i \in 1..Len(SelectSeq(kws, LAMBDA k : IsSubstring(k, line))) |->
            ImportantEv(line, SelectSeq(kws, LAMBDA k : IsSubstring(k, line))[i])]

\* ManagedServer._on_log_line: the events it puts for a line.
OnLogLine(kws, line) ==
    <<LogEv(line)>> \o
        [i \in 1..Len(FirstMatch(kws, line)) |->
            ImportantEv(line, FirstMatch(kws, line)[i])]

\* ProcessAdapter._read_stdout reads one more line of the process of s and
\* passes it, decoded and without its newline, to _on_log_line.
ReadLine(s, line) ==
    /\ proc[s].state # "none"
    /\ proc[s].out < MaxLines
    /\ proc' = [proc EXCEPT ![s].out = @ + 1]
    /\ Emit(s, OnLogLine(cfg[s].log_important_keywords, line))
    /\ UNCHANGED <<tally, order, app, now, cfg, status, health, restart_times, lock, waiters,
                   pc, stop_flag>>

\* ------------------------------------------------------ PolarManager
\* loop(): the test of the stop flag before the first pass.
LoopTop ==
    /\ pc[LoopTask].at = "loop_top"
    /\ pc' = [pc EXCEPT ![LoopTask] =
                IF stop_flag THEN At("loop_exit", "-", "-", "-")
                ELSE FirstOr("tick", "sleep")]
    /\ UNCHANGED <<tally, order, app, now, cfg, status, health, restart_times, proc, lock,
                   waiters, event_q, last_ev, stop_flag>>

\* Mutant: loop() does not test the stop flag after the sleep.
LoopSleepIgnoresStop ==
    /\ pc[LoopTask].at = "sleep"
    /\ pc' = [pc EXCEPT ![LoopTask] = FirstOr("tick", "sleep")]
    /\ UNCHANGED <<tally, order, app, now, cfg, status, health, restart_times, proc,
                   lock, waiters, event_q, last_ev, stop_flag>>

\* loop(): asyncio.sleep(1.0) is over, the stop flag is tested again.
LoopSleep ==
    /\ pc[LoopTask].at = "sleep"
    /\ pc' = [pc EXCEPT ![LoopTask] =
                IF stop_flag THEN At("loop_exit", "-", "-", "-")
                ELSE FirstOr("tick", "sleep")]
    /\ UNCHANGED <<tally, order, app, now, cfg, status, health, restart_times, proc, lock,
                   waiters, event_q, last_ev, stop_flag>>

\* The loop task waits: for the sleep, for a lock, for a spawn, or for the
\* probe of tick_health.  Once started it is at its first wait before
\* anything else runs.
LoopWaits ==
    \/ pc[LoopTask].at \in {"sleep", "start_lock", "start_spawn"}
    \/ pc[LoopTask].at = "health" /\ cfg[pc[LoopTask].srv].health_port

\* main_async has ended with the exception of start_all(): asyncio.run
\* cancels the loop task, some steps later.  CancelledError is raised where
\* the task waits; the except Exception of loop() does not catch it, and
\* it leaves start() through the lock's context manager: a lock the task
\* holds is released, a wait for a lock is given up.
CancelLoop ==
    /\ pc[BootTask].at = "boot_failed"
    /\ LoopWaits
    /\ pc' = [pc EXCEPT ![LoopTask] = At("cancelled", "-", "-", "-")]
    /\ lock' = [s \in Servers |-> IF lock[s] = LoopTask THEN NoTask ELSE lock[s]]
    /\ waiters' = [s \in Servers |-> SelectSeq(waiters[s], LAMBDA x : x # LoopTask)]
    /\ UNCHANGED <<tally, order, app, now, cfg, status, health, restart_times, proc,
                   event_q, last_ev, stop_flag>>

\* start_all(): start(reason="boot") of the next server.
BootStart ==
    /\ pc[BootTask].at = "boot"
    /\ StartCall(BootTask, pc[BootTask].srv, "boot", "boot",
                 status[pc[BootTask].srv], <<>>)
    /\ UNCHANGED <<tally, order, app, now, cfg, health, restart_times, proc, stop_flag>>

\* The API serves requests once start_all() has returned and until the
\* server shuts down (main_async).
Serving == pc[BootTask].at = "boot_done" /\ ~stop_flag
CanCall(t) == t \in Clients /\ pc[t].at \in {"idle", "returned", "raised"}

\* do_action(server_id, "start")
DoStart(t, s) ==
    /\ Serving /\ CanCall(t) /\ s \in Servers
    /\ StartCall(t, s, "api", "start", status[s], <<>>)
    /\ UNCHANGED <<tally, order, app, now, cfg, health, restart_times, proc, stop_flag>>

\* do_action(server_id, "stop")
DoStop(t, s) ==
    /\ Serving /\ CanCall(t) /\ s \in Servers
    /\ StopCall(t, s, "api", "stop")
    /\ UNCHANGED <<tally, order, app, now, cfg, health, restart_times, stop_flag>>

\* do_action(server_id, "restart"): the first phase, stop().
DoRestart(t, s) ==
    /\ Serving /\ CanCall(t) /\ s \in Servers
    /\ StopCall(t, s, "api", "restart")
    /\ UNCHANGED <<tally, order, app, now, cfg, health, restart_times, stop_flag>>

\* The secrets a configuration or an X-Polar-Secret header may carry; "" is
\* none.
Secrets == {"", "s1", "s2"}

\* plugin_event: the request passes when no secret is configured or the
\* header carries the configured one.
SecretOk(shared_secret, x_polar_secret) ==
    \/ shared_secret = ""
    \/ x_polar_secret # "" /\ x_polar_secret = shared_secret

\* The events a plugin may post for a server: type and data are the
\* request's, whatever the server's state.
PluginEvents ==
    {StatusEv("stopped", "api"), StatusEv("running", "api"), CrashEv(1),
     HealthEv("fail")}

\* POST /v1/plugin/event: the event of the request goes on event_q as it
\* is; a request without the configured secret is refused (401) and puts
\* nothing.  No state of the server changes.
PluginEvent(s, ev, x_polar_secret) ==
    /\ Serving
    /\ IF SecretOk(app.shared_secret, x_polar_secret)
       THEN Emit(s, <<ev>>)
       ELSE UNCHANGED <<event_q, last_ev>>
    /\ UNCHANGED <<tally, order, app, now, cfg, status, health, restart_times, proc, lock,
                   waiters, pc, stop_flag>>

\* The action names a request may carry; the last is not one of do_action's.
ActionNames == {"start", "stop", "restart", "bogus"}

\* Mutant: do_action tests the action name before the server id.
DoActionErrorActionFirst(id, action) ==
    IF action \notin {"start", "stop", "restart"} THEN "ValueError"
    ELSE IF id \notin Servers THEN "KeyError"
    ELSE "none"

\* What do_action raises before it dispatches: KeyError for an unknown id,
\* else ValueError for an unknown action.
DoActionError(id, action) ==
    IF id \notin Servers THEN "KeyError"
    ELSE IF action \notin {"start", "stop", "restart"} THEN "ValueError"
    ELSE "none"

\* do_action raises.
DoInvalid(t, id, action) ==
    /\ Serving /\ CanCall(t)
    /\ DoActionError(id, action) # "none"
    /\ pc' = [pc EXCEPT ![t] = At("raised", "-", "-", "-")]
    /\ UNCHANGED <<tally, order, app, now, cfg, status, health, restart_times, proc, lock,
                   waiters, event_q, last_ev, stop_flag>>

\* PolarManager.stop(), called by main_async when the API server has shut
\* down (no request is in flight then).
SupervisorStop ==
    /\ pc[BootTask].at = "boot_done"
    /\ \A t \in Clients : CanCall(t)
    /\ ~stop_flag
    /\ stop_flag' = TRUE
    /\ UNCHANGED <<tally, order, app, now, cfg, status, health, restart_times, proc, lock,
                   waiters, event_q, last_ev, pc>>

\* ------------------------------------------------------- environment
\* The process of server s exits with code c.
ProcExit(s, c) ==
    /\ is_running(proc[s])
    /\ c \in ExitCodes(proc[s])
    /\ proc' = [proc EXCEPT ![s].state = "exited", ![s].code = c]
    /\ Count(s, "exits", c # 0)
    /\ UNCHANGED <<order, app, now, cfg, status, health, restart_times, lock, waiters,
                   event_q, last_ev, pc, stop_flag>>

\* Time passes.
Advance ==
    /\ now + TimeStep <= MaxTime
    /\ now' = now + TimeStep
    /\ UNCHANGED <<tally, order, app, cfg, status, health, restart_times, proc, lock, waiters,
                   event_q, last_ev, pc, stop_flag>>

Next ==
       \/ \E t \in Tasks : SpawnOk(t)
       \/ \E t \in Tasks : SpawnFail(t)
       \/ \E t \in Tasks : StopKill(t)
       \/ \E t \in Tasks : StopDone(t)
       \/ \E t \in Tasks : StopKillFails(t)
       \/ \E t \in Tasks : LockResume(t)
       \/ \E t \in Tasks : RestartStart(t)
       \/ \E s \in Servers : TickIdle(s)
       \/ \E s \in Servers : TickExitZero(s)
       \/ \E s \in Servers : TickCrashNever(s)
       \/ \E s \in Servers : TickCrashLimited(s)
       \/ \E s \in Servers : TickCrashRestart(s)
       \/ \E s \in Servers, ok \in BOOLEAN : TickHealth(s, ok)
       \/ LoopTop
       \/ LoopSleep
       \/ BootStart
       \/ CancelLoop
       \/ \E t \in Clients, s \in Servers : DoStart(t, s)
       \/ \E t \in Clients, s \in Servers : DoStop(t, s)
       \/ \E t \in Clients, s \in Servers : DoRestart(t, s)
       \/ \E t \in Clients, id \in Servers \cup {UnknownId},
             action \in ActionNames : DoInvalid(t, id, action)
       \/ SupervisorStop
       \/ \E s \in Servers, c \in {0, 1, SigTerm, SigKill} : ProcExit(s, c)

Spec == Init /\ [][Next]_vars

\* ------------------------------------------------ supervision alone
\* One server, start_all and the tick loop, no API call: the restart
\* limiter over time.
InitRate ==
    InitWith(<<"a">>, {CfgOf(p, n, FALSE, TRUE) :
                          p \in {"always", "on-failure"}, n \in 1..MaxRestarts},
             TallyCap)

NextRate ==
       \/ \E t \in Tasks : SpawnOk(t)
       \/ \E t \in Tasks : SpawnFail(t)
       \/ \E s \in Servers : TickIdle(s)
       \/ \E s \in Servers : TickExitZero(s)
       \/ \E s \in Servers : TickCrashLimited(s)
       \/ \E s \in Servers : TickCrashRestart(s)
       \/ \E s \in Servers, ok \in BOOLEAN : TickHealth(s, ok)
       \/ LoopTop
       \/ LoopSleep
       \/ BootStart
       \/ CancelLoop
       \/ \E s \in Servers, c \in {0, 1} : ProcExit(s, c)
       \/ Advance

SpecRate == InitRate /\ [][NextRate]_vars

\* Two servers, start_all and the tick loop, no API call.
InitFleet ==
    InitWith(<<"a", "b">>, {CfgOf(p, 1, FALSE, FALSE) : p \in {"always", "never"}}, 0)

NextFleet ==
       \/ \E t \in Tasks : SpawnOk(t)
       \/ \E t \in Tasks : SpawnFail(t)
       \/ \E s \in Servers : TickIdle(s)
       \/ \E s \in Servers : TickExitZero(s)
       \/ \E s \in Servers : TickCrashNever(s)
       \/ \E s \in Servers : TickCrashLimited(s)
       \/ \E s \in Servers : TickCrashRestart(s)
       \/ \E s \in Servers, ok \in BOOLEAN : TickHealth(s, ok)
       \/ LoopTop
       \/ LoopSleep
       \/ BootStart
       \/ CancelLoop
       \/ \E s \in Servers, c \in {0, 1} : ProcExit(s, c)

SpecFleet == InitFleet /\ [][NextFleet]_vars

\* One server and its output: start_all and the lines of the process.
InitLog ==
    InitWith(<<"a">>,
             {[CfgOf("never", 1, FALSE, FALSE) EXCEPT !.log_important_keywords = kws] :
                  kws \in KeywordLists}, 0)

NextLog ==
       \/ \E t \in Tasks : SpawnOk(t)
       \/ \E t \in Tasks : SpawnFail(t)
       \/ BootStart
       \/ \E s \in Servers, line \in Lines : ReadLine(s, line)

SpecLog == InitLog /\ [][NextLog]_vars

\* ------------------------------------------------ the plugin endpoint
\* One server, start_all, the tick loop and the events plugins post, with
\* and without a configured secret.
InitApi ==
    \E shared_secret \in Secrets, policy \in {"always", "never"} :
        InitManager(<<[id |-> "a", cfg |-> CfgOf(policy, 1, FALSE, TRUE)]>>,
                    DefaultMaxServers, shared_secret, 0)

NextApi ==
       \/ \E t \in Tasks : SpawnOk(t)
       \/ \E t \in Tasks : SpawnFail(t)
       \/ \E s \in Servers : TickIdle(s)
       \/ \E s \in Servers : TickExitZero(s)
       \/ \E s \in Servers : TickCrashNever(s)
       \/ \E s \in Servers : TickCrashLimited(s)
       \/ \E s \in Servers : TickCrashRestart(s)
       \/ \E s \in Servers, ok \in BOOLEAN : TickHealth(s, ok)
       \/ LoopTop
       \/ LoopSleep
       \/ BootStart
       \/ CancelLoop
       \/ \E s \in Servers, c \in {0, 1} : ProcExit(s, c)
       \/ \E s \in Servers, ev \in PluginEvents, x_polar_secret \in Secrets :
             PluginEvent(s, ev, x_polar_secret)

SpecApi == InitApi /\ [][NextApi]_vars

\* ------------------------------------------------ the managed set
\* Every list of up to MaxConfigs configured servers over two ids (so that
\* ids repeat) and every max_servers from -1 to beyond the longest list;
\* start_all and the tick loop run on what __init__ built.
BuildIds == {"a", "b"}
ConfigLists ==
    UNION {[1..n -> [id : BuildIds,
                     cfg : {CfgOf("never", 1, FALSE, FALSE),
                            CfgOf("always", 1, FALSE, FALSE)}]] : n \in 0..MaxConfigs}
MaxServersChoices == (-1)..(MaxConfigs + 1)

InitBuild ==
    \E servers \in ConfigLists, max_servers \in MaxServersChoices :
        InitApp(servers, max_servers, 0)

NextBuild ==
       \/ \E t \in Tasks : SpawnOk(t)
       \/ \E t \in Tasks : SpawnFail(t)
       \/ \E s \in Servers : TickIdle(s)
       \/ \E s \in Servers, ok \in BOOLEAN : TickHealth(s, ok)
       \/ LoopTop
       \/ LoopSleep
       \/ BootStart
       \/ CancelLoop

SpecBuild == InitBuild /\ [][NextBuild]_vars

\* ------------------------------------------------ shutdown of the loop
\* Two servers, start_all, the tick loop and PolarManager.stop().  The
\* event loop keeps running the loop task: whatever it awaits (a spawn, a
\* probe, the sleep) returns in the end.
LoopStep ==
    \/ LoopTop
    \/ LoopSleep
    \/ SpawnOk(LoopTask)
    \/ SpawnFail(LoopTask)
    \/ \E s \in Servers :
          \/ TickIdle(s) \/ TickExitZero(s) \/ TickCrashNever(s)
          \/ TickCrashLimited(s) \/ TickCrashRestart(s)
          \/ \E ok \in BOOLEAN : TickHealth(s, ok)

NextStop ==
       \/ \E t \in Tasks : SpawnOk(t)
       \/ \E t \in Tasks : SpawnFail(t)
       \/ \E s \in Servers : TickIdle(s)
       \/ \E s \in Servers : TickExitZero(s)
       \/ \E s \in Servers : TickCrashNever(s)
       \/ \E s \in Servers : TickCrashLimited(s)
       \/ \E s \in Servers : TickCrashRestart(s)
       \/ \E s \in Servers, ok \in BOOLEAN : TickHealth(s, ok)
       \/ LoopTop
       \/ LoopSleep
       \/ BootStart
       \/ CancelLoop
       \/ SupervisorStop
       \/ \E s \in Servers, c \in {0, 1} : ProcExit(s, c)

SpecStop == InitFleet /\ [][NextStop]_vars /\ WF_vars(LoopStep)

\* ------------------------------------------------------------- steps
\* Task t enters the locked body of start() on s in this step.
EntersStart(t, s) ==
    \/ /\ LockFree(s)
       /\ \/ DoStart(t, s)
          \/ RestartStart(t) /\ pc[t].srv = s
          \/ t = BootTask /\ BootStart /\ pc[t].srv = s
          \/ t = LoopTask /\ TickCrashRestart(s)
    \/ LockResume(t) /\ pc[t].at = "start_lock" /\ pc[t].srv = s

\* A call of start() on s by task t returns without error in this step.
StartReturnsOk(t, s) ==
    /\ pc'[t] # pc[t] \/ CanCall(t)
    /\ \/ SpawnOk(t) /\ pc[t].srv = s
       \/ /\ pc'[t].at \notin {"start_spawn", "raised", "boot_failed"}
          /\ t = LoopTask => pc'[t].at = "health"
          /\ EntersStart(t, s)

\* Task t enters the locked body of stop() on s in this step.
EntersStop(t, s) ==
    \/ LockFree(s) /\ (DoStop(t, s) \/ DoRestart(t, s))
    \/ LockResume(t) /\ pc[t].at = "stop_lock" /\ pc[t].srv = s

\* A call of stop() on s by task t returns in this step.
StopReturns(t, s) ==
    /\ pc'[t] # pc[t] \/ CanCall(t)
    /\ \/ StopDone(t) /\ pc[t].srv = s
       \/ pc'[t].at # "stop_wait" /\ EntersStop(t, s)

\* tick_supervisor() of s returns or raises in this step.
TickReturns(s) ==
    /\ pc'[LoopTask] # pc[LoopTask]
    /\ pc[LoopTask].srv = s
    /\ \/ TickIdle(s) \/ TickExitZero(s) \/ TickCrashNever(s) \/ TickCrashLimited(s)
       \/ /\ pc[LoopTask].via = "tick"
          /\ \/ SpawnOk(LoopTask)
             \/ SpawnFail(LoopTask)
             \/ LockResume(LoopTask) /\ pc'[LoopTask].at # "start_spawn"

\* A start(), stop(), restart() or tick_supervisor() is in flight for s.
InFlight(s) ==
    \E t \in Tasks :
        /\ pc[t].srv = s
        /\ pc[t].at \in {"start_lock", "start_spawn", "stop_lock", "stop_wait",
                         "restart_sleep"}

\* ------------------------------------------------------------ claims

\* C1: at the moment a call of start() returns without error the server's
\* status is running, and at the moment a call of stop() returns it is
\* stopped, whatever the tick loop did in between.  A start() that finds
\* the process running returns with the status it found: whenever it could
\* do so (the process runs and the lock is free) that status is running.
C1_StartStopResult ==
    /\ [](\A s \in Servers :
             (is_running(proc[s]) /\ LockFree(s)) => status[s] = "running")
    /\ [][\A t \in Tasks, s \in Servers :
             /\ StartReturnsOk(t, s) => status'[s] = "running"
             /\ StopReturns(t, s) => status'[s] = "stopped"]_vars

\* A start() by start_all and a stop() by the API have both returned: the
\* one client that has called has its answer, and the server's events are
\* those of the boot start and of the API stop.
C1_Witness ==
    \E t \in Clients, s \in Servers :
        /\ pc[BootTask].at = "boot_done"
        /\ pc[t].at = "returned"
        /\ \A o \in Clients \ {t} : pc[o].at = "idle"
        /\ status[s] = "stopped"
        /\ proc[s].state = "exited"
        /\ event_q[s] = <<StatusEv("starting", "boot"), StatusEv("running", "boot"),
                          StatusEv("stopped", "api")>>

\* C2: start() entered while the process is running changes nothing of the
\* server: status, health, restart window, process handle and event stream
\* stay as they are, and the lock is free again.
C2_StartNoop ==
    [][\A t \in Tasks, s \in Servers :
          (EntersStart(t, s) /\ is_running(proc[s])) =>
              /\ status'[s] = status[s]
              /\ health'[s] = health[s]
              /\ restart_times'[s] = restart_times[s]
              /\ proc'[s] = proc[s]
              /\ event_q'[s] = event_q[s]
              /\ last_ev'[s] = last_ev[s]
              /\ lock'[s] = NoTask]_vars

\* An API start() has returned for a server whose only events are the two
\* of its boot start: that call was the no-op.
C2_Witness ==
    \E t \in Clients, s \in Servers :
        /\ pc[t].at = "returned"
        /\ \A o \in Clients \ {t} : pc[o].at = "idle"
        /\ is_running(proc[s])
        /\ status[s] = "running"
        /\ event_q[s] = <<StatusEv("starting", "boot"), StatusEv("running", "boot")>>

\* C3: the handle never runs with status crashed, and at the moment a
\* stop() or a tick_supervisor() returns, under any interleaving of the
\* two, the handle is not stopped with status running.
C3_NoContradiction ==
    [][\A s \in Servers :
          /\ ~(is_running(proc'[s]) /\ status'[s] = "crashed")
          /\ (TickReturns(s) \/ \E t \in Tasks : StopReturns(t, s)) =>
                ~(~is_running(proc'[s]) /\ status'[s] = "running")]_vars

\* The race has happened: the tick saw the exit while stop() held the
\* lock, stop() then returned and the queued auto-restart ran.
C3_Witness ==
    \E t \in Clients, s \in Servers :
        /\ pc[t].at = "returned"
        /\ pc[LoopTask].at = "health" /\ pc[LoopTask].srv = s
        /\ is_running(proc[s])
        /\ status[s] = "running"
        /\ event_q[s] = <<StatusEv("stopped", "api"),
                          StatusEv("starting", "auto_restart"),
                          StatusEv("running", "auto_restart")>>

\* The last status/crash event of s says what status[s] is.
Matches(s) ==
    \/ last_ev[s].type = "status" /\ last_ev[s].val = status[s]
    \/ last_ev[s].type = "crash" /\ status[s] = "crashed"
    \/ last_ev[s].type = "none" /\ status[s] = "stopped"

\* C4 as claimed: whenever nothing is in flight for a server, its last
\* status/crash event matches its status.
C4_LastEventMatches ==
    \A s \in Servers : ~InFlight(s) => Matches(s)

\* C4 as amended: whenever nothing is in flight for a server, its last
\* status/crash event matches its status, or tick_supervisor has set
\* stopped without an event after an exit with code 0.
C4_LastEventMatchesOrCleanExit ==
    \A s \in Servers :
        ~InFlight(s) =>
            \/ Matches(s)
            \/ status[s] = "stopped" /\ ~is_running(proc[s]) /\ exit_code(proc[s]) = 0

\* A crashed server at rest whose last event is the crash.
C4_Witness ==
    \E s \in Servers :
        /\ ~InFlight(s)
        /\ status[s] = "crashed"
        /\ last_ev[s] = CrashEv(1)
        /\ pc[LoopTask].at = "sleep"

\* C5 as claimed: with max_restart_per_minute = N and a policy other than
\* never, once N+1 processes of a server have exited with a non-zero code
\* within the first 60 seconds and the supervisor has evaluated the last of
\* them, there have been exactly N auto-restart attempts and exactly one
\* rate-limit warn.
C5_RateLimitCounts ==
    \A s \in Servers :
        (/\ cfg[s].restart_policy # "never"
         /\ now <= Window
         /\ tally[s].exits = cfg[s].max_restart_per_minute + 1
         /\ status[s] = "crashed"
         /\ pc[LoopTask].at = "sleep") =>
            /\ tally[s].autos = cfg[s].max_restart_per_minute
            /\ tally[s].warns = 1

\* C6: every evaluation of the limiter in tick_supervisor leaves no
\* timestamp older than now - 60 in the window, and an evaluation made more
\* than 60 seconds after the earliest counted restart allows the restart.
C6_TrailingWindow ==
    [][\A s \in Servers :
          (TickCrashLimited(s) \/ TickCrashRestart(s)) =>
              /\ \A i \in 1..Len(restart_times'[s]) :
                     restart_times'[s][i] >= now - Window
              /\ (restart_times[s] # <<>> /\ now > restart_times[s][1] + Window)
                     => TickCrashRestart(s)]_vars

\* A server that was rate-limited has been restarted again, more than 60
\* seconds after the restart that had filled its window.
C6_Witness ==
    \E s \in Servers :
        /\ tally[s].warns >= 1
        /\ cfg[s].max_restart_per_minute = 1
        /\ now > Window
        /\ restart_times[s] = <<now>>
        /\ tally[s].autos = 2

\* C7: a tick_supervisor that finds the process exited with a non-zero
\* code, with a policy other than never, the limiter allowing and the lock
\* free, puts a crash event with the exit code and a status event starting,
\* and when the spawn returns a status event running, both with reason
\* auto_restart, with no other event of the server in between; status goes
\* to starting and then to running, and the tick returns.
C7_AutoRestartEvents ==
    [][\A s \in Servers :
          /\ (TickCrashRestart(s) /\ LockFree(s)) =>
                /\ status'[s] = "starting"
                /\ lock'[s] = LoopTask
                /\ KeepLast(event_q'[s], 2)
                     = <<CrashEv(exit_code(proc[s])),
                         StatusEv("starting", "auto_restart")>>
          /\ (/\ SpawnOk(LoopTask)
              /\ pc[LoopTask].srv = s
              /\ KeepLast(event_q[s], 2)
                     = <<CrashEv(exit_code(proc[s])),
                         StatusEv("starting", "auto_restart")>>) =>
                /\ status'[s] = "running"
                /\ pc'[LoopTask] = At("health", s, "-", "-")
                /\ KeepLast(event_q'[s], 3)
                     = <<CrashEv(exit_code(proc[s])),
                         StatusEv("starting", "auto_restart"),
                         StatusEv("running", "auto_restart")>>]_vars

\* The tick has auto-restarted a server that had exited with code 1.
C7_Witness ==
    \E s \in Servers :
        /\ pc[LoopTask].at = "health" /\ pc[LoopTask].srv = s
        /\ status[s] = "running"
        /\ is_running(proc[s])
        /\ event_q[s] = <<CrashEv(1), StatusEv("starting", "auto_restart"),
                          StatusEv("running", "auto_restart")>>

\* start() has been attempted on s: status left stopped, or a process was
\* spawned.
StartAttempted(s) == status[s] # "stopped" \/ proc[s].state # "none"

\* C8 as claimed: when start_all() has ended, with or without a failed
\* start, a start was attempted on every managed server.
C8_StartAllIsolates ==
    pc[BootTask].at \in {"boot_done", "boot_failed"} =>
        \A s \in Servers : StartAttempted(s)

\* C9: when the auto-restart of tick_supervisor raises for a server, the
\* loop goes on with the next server of the pass (or with the sleep and the
\* next pass), and nothing of any other server changes.
C9_TickFailureIsolated ==
    [][\A s \in Servers :
          (SpawnFail(LoopTask) /\ pc[LoopTask].srv = s) =>
              /\ pc'[LoopTask] = AfterTicks(s)
              /\ \A o \in Servers \ {s} :
                    /\ status'[o] = status[o]
                    /\ health'[o] = health[o]
                    /\ restart_times'[o] = restart_times[o]
                    /\ proc'[o] = proc[o]
                    /\ lock'[o] = lock[o]
                    /\ event_q'[o] = event_q[o]]_vars

\* The auto-restart of the first server failed (its status is left
\* starting, its lock free) and the pass is at the tick of the second.
C9_Witness ==
    /\ Len(order) = 2
    /\ pc[LoopTask].at = "tick" /\ pc[LoopTask].srv = order[2]
    /\ status[order[1]] = "starting"
    /\ lock[order[1]] = NoTask
    /\ proc[order[1]].state = "exited"
    /\ KeepLast(event_q[order[1]], 1) = <<StatusEv("starting", "auto_restart")>>

\* The tasks inside the locked body of start() or stop() of s.
InBody(s) ==
    {t \in Tasks : pc[t].srv = s /\ pc[t].at \in {"start_spawn", "stop_wait"}}

\* C10: for each server at most one task is inside the locked body of
\* start() or stop(), and it is the task holding the server's lock.
C10_MutualExclusion ==
    \A s \in Servers :
        /\ Cardinality(InBody(s)) <= 1
        /\ \A t \in InBody(s) : lock[s] = t

\* A task waits for the lock of a server while another is in the body.
C10_Witness ==
    \E s \in Servers :
        /\ waiters[s] # <<>>
        /\ InBody(s) # {}
        /\ pc[Head(waiters[s])].at \in {"start_lock", "stop_lock"}

\* C11: a process is spawned for a server only when the handle's previous
\* process is not alive, so a live process is never replaced (and never
\* left running beside its successor), under any interleaving of start,
\* stop, restart and auto-restart.
C11_OneLiveProcess ==
    [][\A t \in Tasks, s \in Servers :
          (SpawnOk(t) /\ pc[t].srv = s) =>
              ~AlreadyRunning(proc[s])]_vars

\* An API restart has replaced the process of a server: the old one was
\* stopped, then the new one spawned.
C11_Witness ==
    \E s \in Servers :
        /\ is_running(proc[s])
        /\ status[s] = "running"
        /\ event_q[s] = <<StatusEv("stopped", "api"), StatusEv("starting", "api"),
                          StatusEv("running", "api")>>

\* The health events among the events q, in order.
HealthEvents(q) == SelectSeq(q, LAMBDA e : e.type = "health")

\* No two successive health events of q carry the same value.
Alternates(q) ==
    \A i \in 1..(Len(HealthEvents(q)) - 1) :
        HealthEvents(q)[i].val # HealthEvents(q)[i + 1].val

\* C12: an evaluation of tick_health whose result equals the stored health
\* puts no event and one whose result differs puts one health event with
\* the new value, which becomes the stored health; successive health events
\* of a server never carry the same value.
C12_HealthOnChange ==
    [][\A s \in Servers, ok \in BOOLEAN :
          TickHealth(s, ok) =>
              LET new_state == IF ok THEN "ok" ELSE "fail" IN
                  /\ health'[s] = new_state
                  /\ new_state = health[s] => event_q'[s] = event_q[s]
                  /\ new_state # health[s] =>
                        event_q'[s] = KeepLast(Append(event_q[s], HealthEv(new_state)),
                                               MaxEvents)
                  /\ Alternates(event_q'[s])]_vars

\* The probe of a server failed and later succeeded: the last two events
\* of the server are health fail and health ok, and the pass is over.
C12_Witness ==
    \E s \in Servers :
        /\ health[s] = "ok"
        /\ pc[LoopTask].at = "sleep"
        /\ KeepLast(event_q[s], 2) = <<HealthEv("fail"), HealthEv("ok")>>

\* The positions of the keywords of kws that occur in line.
Hits(kws, line) == {i \in 1..Len(kws) : IsSubstring(kws[i], line)}

\* C13: for every line and keyword list, the callback puts the line's
\* log_line event and then nothing when no keyword occurs in the line, else
\* exactly one important_log with the line and the keyword of the least
\* position among those occurring in it.
C13_OneImportantLog ==
    [][\A s \in Servers, line \in Lines :
          ReadLine(s, line) =>
              LET kws == cfg[s].log_important_keywords
                  first == CHOOSE i \in Hits(kws, line) :
                               \A j \in Hits(kws, line) : i <= j
              IN event_q'[s] =
                     KeepLast(event_q[s] \o
                              (IF Hits(kws, line) = {} THEN <<LogEv(line)>>
                               ELSE <<LogEv(line), ImportantEv(line, kws[first])>>),
                              MaxEvents)]_vars

\* A line with both configured keywords in it was read: one important_log,
\* with the keyword listed first, right after the line's log_line.
C13_Witness ==
    \E s \in Servers :
        /\ cfg[s].log_important_keywords = << <<"b">>, <<"a">> >>
        /\ KeepLast(event_q[s], 2) =
               <<LogEv(<<"a", "b">>), ImportantEv(<<"a", "b">>, <<"b">>)>>

\* C14: do_action with an id that is not managed never dispatches to
\* start, stop or restart: for every action name it raises KeyError
\* (NotFound), puts no event and leaves status, health, restart window,
\* process and lock of every server as they are.
C14_UnknownIdNotFound ==
    [][\A t \in Clients, action \in ActionNames :
          /\ ~DoStart(t, UnknownId)
          /\ ~DoStop(t, UnknownId)
          /\ ~DoRestart(t, UnknownId)
          /\ DoInvalid(t, UnknownId, action) =>
                /\ DoActionError(UnknownId, action) = "KeyError"
                /\ pc'[t].at = "raised"
                /\ UNCHANGED <<status, health, restart_times, proc, lock, waiters,
                               event_q, last_ev>>]_vars

\* A request was refused (the client has its exception) while the server
\* runs as its boot start left it.
C14_Witness ==
    \E t \in Clients, s \in Servers :
        /\ pc[t].at = "raised"
        /\ \A o \in Clients \ {t} : pc[o].at = "idle"
        /\ UnknownId \notin Servers
        /\ is_running(proc[s])
        /\ status[s] = "running"
        /\ event_q[s] = <<StatusEv("starting", "boot"), StatusEv("running", "boot")>>

\* The loop task leaves tick_supervisor(s) or goes into start() from it.
TickMoves(s) ==
    /\ Ticking(s)
    /\ pc'[LoopTask] # pc[LoopTask]
    /\ pc'[LoopTask].at # "cancelled"

\* tick_supervisor(s) calls start(reason="auto_restart") in this step.
AutoRestartIssued(s) ==
    TickMoves(s) /\ pc'[LoopTask].at \in {"start_lock", "start_spawn"}

\* C15: tick_supervisor calls start only when the process has exited with
\* a non-zero code, restart_policy is not never and the limiter allows;
\* on exit code 0 it sets status stopped, puts no event and restarts
\* nothing whatever the policy; with policy never it never restarts.
C15_RestartOnlyOnFailure ==
    [][\A s \in Servers :
          /\ AutoRestartIssued(s) =>
                /\ Crashed(s)
                /\ cfg[s].restart_policy # "never"
                /\ AllowRestart(restart_times[s], now,
                                cfg[s].max_restart_per_minute).ok
          /\ (TickMoves(s) /\ ~is_running(proc[s]) /\ exit_code(proc[s]) = 0) =>
                /\ status'[s] = "stopped"
                /\ pc'[LoopTask] = At("health", s, "-", "-")
                /\ UNCHANGED <<event_q, last_ev, proc, restart_times, lock, waiters>>
          /\ (TickMoves(s) /\ cfg[s].restart_policy = "never") =>
                /\ pc'[LoopTask] = At("health", s, "-", "-")
                /\ UNCHANGED <<proc, restart_times, lock, waiters>>]_vars

\* A server with policy always whose process exited with code 0: the tick
\* has set it stopped, its last event is still the running of its boot
\* start, and no restart was recorded.
C15_Witness ==
    \E s \in Servers :
        /\ cfg[s].restart_policy = "always"
        /\ pc[LoopTask].at = "sleep"
        /\ status[s] = "stopped"
        /\ proc[s].state = "exited" /\ exit_code(proc[s]) = 0
        /\ restart_times[s] = <<>>
        /\ event_q[s] = <<StatusEv("starting", "boot"), StatusEv("running", "boot")>>

\* C16 as claimed: for every configuration list and every max_servers the
\* manager holds at most max_servers servers (none when max_servers is not
\* positive), one per distinct id among the first max_servers configured
\* ones, at all times.
C16_ManagedSetBounded ==
    /\ Len(order) <= (IF app.max_servers > 0 THEN app.max_servers ELSE 0)
    /\ \A i, j \in 1..Len(order) : order[i] = order[j] => i = j
    /\ Servers = {app.servers[i].id :
                     i \in {k \in 1..Len(app.servers) : k <= app.max_servers}}

\* C17: stop() only sets the flag and moves no task; the loop task looks
\* at the flag only at the head of a pass, so a pass under way goes on to
\* its remaining servers and an auto-restart under way to its end; once
\* the loop has seen the flag it has returned for good; and after stop()
\* the loop eventually returns.
C17_CooperativeStop ==
    /\ [][/\ SupervisorStop => pc' = pc
          /\ (stop_flag /\ pc[LoopTask].at \notin {"sleep", "loop_top", "loop_exit"})
                => pc'[LoopTask].at \notin {"loop_exit", "cancelled"}
          /\ \A s \in Servers :
                (stop_flag /\ (TickHealth(s, TRUE) \/ TickHealth(s, FALSE)))
                    => pc'[LoopTask] = AfterTicks(s)
          /\ (stop_flag /\ (LoopSleep \/ LoopTop))
                => pc'[LoopTask].at = "loop_exit"
          /\ pc[LoopTask].at = "loop_exit" => pc'[LoopTask].at = "loop_exit"]_vars
    /\ (stop_flag ~> pc[LoopTask].at = "loop_exit")

\* The loop has returned after stop(), and the last thing it did for its
\* second server was an auto-restart carried to its end.
C17_Witness ==
    /\ stop_flag
    /\ pc[LoopTask].at = "loop_exit"
    /\ Len(order) = 2
    /\ is_running(proc[order[2]])
    /\ event_q[order[2]] = <<CrashEv(1), StatusEv("starting", "auto_restart"),
                             StatusEv("running", "auto_restart")>>

\* An API stop() has terminated the process of s and returned, and nothing
\* was issued for s since: the last status event is its stopped, the
\* process is the one it signalled, no call is in flight.
StoppedByApi(s) ==
    /\ status[s] = "stopped"
    /\ last_ev[s] = StatusEv("stopped", "api")
    /\ proc[s].state = "exited"
    /\ proc[s].sig # "none"
    /\ ~InFlight(s)

\* C18 as claimed: once an external stop() has terminated the process of a
\* server and returned, and no start or restart was issued since, a
\* tick_supervisor of the server puts no event, leaves the status stopped
\* and starts nothing, whatever the exit code and the restart policy.
C18_StopIsDurable ==
    [][\A s \in Servers :
          (StoppedByApi(s) /\ TickMoves(s)) =>
              /\ status'[s] = "stopped"
              /\ event_q'[s] = event_q[s]
              /\ ~AutoRestartIssued(s)
              /\ proc'[s] = proc[s]]_vars

\* tick_supervisor has already evaluated the exit of the process of s: the
\* status is crashed and the last status/crash event is the crash with the
\* process's exit code (a start or stop since would have changed both).
ExitEvaluated(s) ==
    /\ Crashed(s)
    /\ status[s] = "crashed"
    /\ last_ev[s] = CrashEv(exit_code(proc[s]))

\* C19 as claimed: a tick_supervisor pass over an exited process whose
\* exit it has evaluated before, the server staying down, puts no further
\* crash or warn event.
C19_OneCrashPerExit ==
    [][\A s \in Servers :
          (ExitEvaluated(s) /\ TickMoves(s) /\ ~AutoRestartIssued(s)) =>
              event_q'[s] = event_q[s]]_vars

\* A task holds the lock of s inside the body of start() / of stop().
StartHolds(s) ==
    \E t \in Tasks : lock[s] = t /\ pc[t].srv = s /\ pc[t].at = "start_spawn"
StopHolds(s) ==
    \E t \in Tasks : lock[s] = t /\ pc[t].srv = s /\ pc[t].at = "stop_wait"

\* C20 as claimed: in every reachable state the status of a server is
\* starting only while a start() holds its lock and stopping only while a
\* stop() holds it, also after a start() whose spawn failed.
C20_TransientStatuses ==
    \A s \in Servers :
        /\ status[s] = "starting" => StartHolds(s)
        /\ status[s] = "stopping" => StopHolds(s)

====
